---- MODULE Spec2Model ----
(***************************************************************************)
(* embargo: configuration resolution (read_configuration), source          *)
(* discovery (find_file), the parallel compile phase (parallel_run over    *)
(* compile_object), result aggregation (compile_all_objects) and the link  *)
(* step (link_program), as driven by main -> build_command -> build.       *)
(***************************************************************************)
EXTENDS Integers, Sequences, FiniteSets, TLC

\* ------------------------------------------------------------------ bounds
\* largest number of source files under src/
MaxSrcs == 2
\* largest value thread::available_parallelism() reports
MaxThreads == 2
\* largest number of chunks a compiler process writes to one of its streams
MaxChunks == 2

\* --------------------------------------------------------------- constants
CONFIG_FILE == "Embargo.toml"

COMPILER_KEY == "compiler"
DEBUGGER_KEY == "debugger"
LINTER_KEY == "linter"
FLAGS_KEY == "flags"
DEBUG_FLAGS_KEY == "debug-flags"
RELEASE_FLAGS_KEY == "release-flags"
LINKER_FLAGS_KEY == "linker-flags"
LINTER_CHECKS_KEY == "linter-checks"

DEFAULT_COMPILER == "clang++"
DEFAULT_DEBUGGER == "lldb"
DEFAULT_LINTER == "clang-tidy"
DEFAULT_FLAGS == <<"-Wall", "-Wextra", "-pedantic">>
DEFAULT_DEBUG_FLAGS == <<"-g">>
DEFAULT_RELEASE_FLAGS == <<"-O2">>
DEFAULT_LINKER_FLAGS == <<>>
DEFAULT_LINTER_CHECKS == "clang-analyzer-*"

SRC_DIR == "src"
INCLUDE_DIR == "include"
BUILD_DIR == "build"
DEBUG_BUILD_SUBDIR == "debug"
RELEASE_BUILD_SUBDIR == "release"
EXE_EXTENSION == ""

\* ------------------------------------------------------------------- state
VARIABLES
    configFile,     \* what ./Embargo.toml holds: missing, unparsable, or a toml table
    command,        \* the subcommand given on the command line
    srcCount,       \* the number of compilable sources in the tree under src/
    srcUnreadable,  \* whether WalkDir reports an unreadable entry under src/
    parallelism,    \* what thread::available_parallelism() returns
    dirs,           \* the directories that exist under build/
    files,          \* the files that exist under build/
    pc,             \* position of the main thread
    config,         \* result of read_configuration
    flags,          \* build: the flag vector
    build_subdir,   \* build: the variant's sub-directory
    data,           \* parallel_run: the input vector (compile_parameters)
    iterPos,        \* parallel_run: how many items the shared iterator has yielded
    iterLock,       \* holder of the iterator mutex (0: free)
    out,            \* parallel_run: the shared output vector
    outLock,        \* holder of the output mutex (0: free)
    thread_count,   \* parallel_run: the pool size
    spawned,        \* number of workers spawned so far
    joined,         \* number of handles joined so far
    wpc,            \* position of each worker thread
    wval,           \* the index in data of the item a worker holds (0: none)
    wres,           \* the result a worker is about to push
    results,        \* compile_all_objects: what parallel_run returned
    obj_files,      \* link_program: what find_objects returned
    compiled,       \* what compile_all_objects returned
    buildResult,    \* what build returned
    outcome,        \* what the command reported to the user
    handed,         \* history: how often each item of data left the iterator
    invoked,        \* history: how often the task function was entered per item
    outOf,          \* history: the item each element of out was computed from
    ccRuns,         \* history: compiler processes started in the compile phase
    linkRuns,       \* history: flags, objects and exit status of the link processes started
    cobj,           \* compile_object: position after create_dir_all, compile_output, result
    child,          \* the compiler process: state, exit status, chunks written per stream
    shown           \* chunks written to embargo's own stdout and stderr

envVars == <<configFile, command, srcCount, srcUnreadable, parallelism>>
fsVars == <<dirs, files>>
mainVars == <<pc, config, flags, build_subdir, results, compiled, obj_files, buildResult,
              outcome>>
poolVars == <<data, iterPos, iterLock, out, outLock, thread_count, spawned, joined,
              wpc, wval, wres>>
histVars == <<handed, invoked, outOf, ccRuns, linkRuns>>
procVars == <<cobj, child, shown>>
vars == <<envVars, fsVars, mainVars, poolVars, histVars, procVars>>

\* ------------------------------------------------------------ Result values
\* Result<bool, String>
Ok(b) == [tag |-> "Ok", val |-> b, msg |-> <<>>]
Err(m) == [tag |-> "Err", val |-> FALSE, msg |-> m]
NoResult == [tag |-> "None", val |-> FALSE, msg |-> <<>>]

\* Result<Option<T>, String> of the key readers
OkNone == [tag |-> "Ok", some |-> FALSE, val |-> <<>>, msg |-> <<>>]
OkSome(v) == [tag |-> "Ok", some |-> TRUE, val |-> v, msg |-> <<>>]
ErrKey(m) == [tag |-> "Err", some |-> FALSE, val |-> <<>>, msg |-> m]

\* Result<Config, String>
OkConfig(c) == [tag |-> "Ok", config |-> c, msg |-> <<>>]
ErrConfig(m) == [tag |-> "Err", config |-> <<>>, msg |-> m]

\* ------------------------------------------------------------- toml values
StringV(s) == [type |-> "String", str |-> s, arr |-> <<>>]
IntegerV == [type |-> "Integer", str |-> "", arr |-> <<>>]
ArrayV(a) == [type |-> "Array", str |-> "", arr |-> a]

\* Value::as_str, Value::as_array
IsStr(v) == v.type = "String"
IsArray(v) == v.type = "Array"

\* the file on disk
MissingFile == [kind |-> "missing", table |-> <<>>]
GarbageFile == [kind |-> "garbage", table |-> <<>>]
TomlFile(t) == [kind |-> "toml", table |-> t]

\* ------------------------------------------------------- read_configuration
\* the message is built by format!: the key name, then the fixed text
read_string_key(toml, key_name) ==
    IF key_name \notin DOMAIN toml THEN OkNone
    ELSE IF IsStr(toml[key_name]) THEN OkSome(toml[key_name].str)
    ELSE ErrKey(<<key_name, " value must be a string">>)

\* read_string_list_key that keeps the strings of an array and drops the rest
read_string_list_key_lenient(toml, key_name) ==
    IF key_name \notin DOMAIN toml THEN OkNone
    ELSE IF ~IsArray(toml[key_name])
         THEN ErrKey(<<key_name, " value must be an array of string">>)
    ELSE LET strs == SelectSeq(toml[key_name].arr, IsStr) IN
         OkSome([i \in 1..Len(strs) |-> strs[i].str])

read_string_list_key(toml, key_name) ==
    IF key_name \notin DOMAIN toml THEN OkNone
    ELSE IF ~IsArray(toml[key_name])
         THEN ErrKey(<<key_name, " value must be an array of string">>)
    ELSE LET array == toml[key_name].arr IN
         IF \E i \in 1..Len(array) : ~IsStr(array[i])
         THEN ErrKey(<<key_name, " value must be an array of string">>)
         ELSE OkSome([i \in 1..Len(array) |-> array[i].str])

\* Option::unwrap_or_else
UnwrapOr(r, default) == IF r.some THEN r.val ELSE default

\* KeyReads with the release flags read from the debug-flags key
KeyReadsSameKeyTwice(toml) ==
    << read_string_key(toml, COMPILER_KEY),
       read_string_key(toml, DEBUGGER_KEY),
       read_string_key(toml, LINTER_KEY),
       read_string_list_key(toml, FLAGS_KEY),
       read_string_list_key(toml, DEBUG_FLAGS_KEY),
       read_string_list_key(toml, DEBUG_FLAGS_KEY),
       read_string_list_key(toml, LINKER_FLAGS_KEY),
       read_string_key(toml, LINTER_CHECKS_KEY) >>

\* the eight reads of read_configuration, in the order the code makes them
KeyReads(toml) ==
    << read_string_key(toml, COMPILER_KEY),
       read_string_key(toml, DEBUGGER_KEY),
       read_string_key(toml, LINTER_KEY),
       read_string_list_key(toml, FLAGS_KEY),
       read_string_list_key(toml, DEBUG_FLAGS_KEY),
       read_string_list_key(toml, RELEASE_FLAGS_KEY),
       read_string_list_key(toml, LINKER_FLAGS_KEY),
       read_string_key(toml, LINTER_CHECKS_KEY) >>

read_configuration(file) ==
    IF file.kind = "missing"
    THEN ErrConfig(<<"Can't read ", CONFIG_FILE, " file ! Are you in a project folder ? : ">>)
    ELSE IF file.kind = "garbage"
    THEN ErrConfig(<<"Can't parse ", CONFIG_FILE, " file ! Does it contain valid toml ? : ">>)
    ELSE LET r == KeyReads(file.table)
             bad == {i \in 1..Len(r) : r[i].tag = "Err"}
         IN  IF bad # {}
             \* the ? operator returns at the first read that fails
             THEN ErrConfig(r[CHOOSE i \in bad : \A j \in bad : i <= j].msg)
             ELSE OkConfig([compiler |-> UnwrapOr(r[1], DEFAULT_COMPILER),
                            debugger |-> UnwrapOr(r[2], DEFAULT_DEBUGGER),
                            linter |-> UnwrapOr(r[3], DEFAULT_LINTER),
                            flags |-> UnwrapOr(r[4], DEFAULT_FLAGS),
                            debug_flags |-> UnwrapOr(r[5], DEFAULT_DEBUG_FLAGS),
                            release_flags |-> UnwrapOr(r[6], DEFAULT_RELEASE_FLAGS),
                            linker_flags |-> UnwrapOr(r[7], DEFAULT_LINKER_FLAGS),
                            linter_checks |-> UnwrapOr(r[8], DEFAULT_LINTER_CHECKS)])

\* ------------------------------------------------------------- file system
\* a path: its directory components, the file stem and the extension
\* (without the dot; "" when the name has none)
Path(dir, stem, ext) == [dir |-> dir, stem |-> stem, ext |-> ext]

\* an entry WalkDir yields
FileEntry(p) == [path |-> p, is_file |-> TRUE]
DirEntry(p) == [path |-> p, is_file |-> FALSE]

\* str::ends_with for a suffix of the form ".ext"
EndsWith(p, suffix) == suffix = "." \o p.ext

IsPrefix(d, e) == Len(d) <= Len(e) /\ SubSeq(e, 1, Len(d)) = d

\* the directories create_dir_all makes sure exist
Ancestors(dir) == {SubSeq(dir, 1, k) : k \in 1..Len(dir)}

\* Result<Vec<String>, String>
OkFiles(fs) == [tag |-> "Ok", files |-> fs, msg |-> <<>>]
ErrFiles(m) == [tag |-> "Err", files |-> <<>>, msg |-> m]

\* the matching files of a walk, in walk order
RECURSIVE Matching(_, _)
Matching(walk, extensions) ==
    IF walk = <<>> THEN <<>>
    ELSE LET file == Head(walk)
             rest == Matching(Tail(walk), extensions)
         IN  IF file.is_file /\ \E i \in 1..Len(extensions) : EndsWith(file.path, extensions[i])
             THEN <<file.path>> \o rest
             ELSE rest

\* find_file that steps over an entry it cannot read
find_file_skipping(walk, unreadable, extensions) == OkFiles(Matching(walk, extensions))

\* walk: the entries of the directory in walk order; unreadable: an entry is an Err
find_file(walk, unreadable, extensions) ==
    IF unreadable THEN ErrFiles(<<"Error can't read entry : ">>)
    ELSE OkFiles(Matching(walk, extensions))

find_srcs(walk, unreadable) == find_file(walk, unreadable, <<".cpp", ".c">>)

\* the entries WalkDir yields, in directory order, for the tree under src/
\* with n compilable sources: a.cpp, a.c, sub/b.cpp, sub/b.c, ...
StemNames == <<"a", "b", "c", "d">>
SrcFile(i) ==
    Path(IF i > 2 THEN <<SRC_DIR, "sub">> ELSE <<SRC_DIR>>,
         StemNames[((i - 1) \div 2) + 1],
         IF i % 2 = 1 THEN "cpp" ELSE "c")
SrcTree(n) ==
    <<DirEntry(Path(<<>>, SRC_DIR, ""))>>
    \o [i \in 1..n |-> FileEntry(SrcFile(i))]
    \o << FileEntry(Path(<<SRC_DIR>>, "notes", "txt")),
          DirEntry(Path(<<SRC_DIR>>, "sub", "")),
          FileEntry(Path(<<SRC_DIR, "sub">>, "d", "hpp")) >>

\* build/<build_subdir>
SubdirOf(subdir) == <<BUILD_DIR, subdir>>

\* the files below a directory of the build tree
FilesUnder(root, fileSet) == {f \in fileSet : IsPrefix(root, f.dir)}

\* the orders in which a walk can yield a set of files
WalkOrders(fileSet) ==
    {s \in [1..Cardinality(fileSet) -> fileSet] :
        \A i, j \in 1..Cardinality(fileSet) : i # j => s[i] # s[j]}

\* what an earlier build left behind
StaleFiles ==
    { Path(SubdirOf(DEBUG_BUILD_SUBDIR), "old", "o"),
      Path(SubdirOf(DEBUG_BUILD_SUBDIR), "app", EXE_EXTENSION),
      Path(SubdirOf(RELEASE_BUILD_SUBDIR), "old", "o") }
StaleDirs == {<<BUILD_DIR>>, SubdirOf(DEBUG_BUILD_SUBDIR), SubdirOf(RELEASE_BUILD_SUBDIR)}

\* ---------------------------------------------------------------- the jobs
\* compile_all_objects: the object path of a source file
OutputPath(input, subdir) ==
    Path(SubdirOf(subdir) \o input.dir, input.stem, "o")

\* compile_all_objects: one parameter tuple per source file
CompileParameters(source_files, compiler, fl, subdir) ==
    [i \in 1..Len(source_files) |->
        [compiler |-> compiler, flags |-> fl, input |-> source_files[i],
         output |-> OutputPath(source_files[i], subdir)]]

\* BuildFlags with the flags of both variants
BuildFlagsBothVariants(cfg, release) ==
    cfg.flags \o cfg.debug_flags \o cfg.release_flags \o <<"-I" \o INCLUDE_DIR>>

\* build: the flag vector of the compile phase
BuildFlags(cfg, release) ==
    cfg.flags \o (IF release THEN cfg.release_flags ELSE cfg.debug_flags)
              \o <<"-I" \o INCLUDE_DIR>>

BuildSubdir(release) == IF release THEN RELEASE_BUILD_SUBDIR ELSE DEBUG_BUILD_SUBDIR

\* compile_all_objects: the loop over the results of parallel_run
RECURSIVE AggregateFrom(_, _)
AggregateFrom(rs, i) ==
    IF i > Len(rs) THEN Ok(TRUE)
    ELSE IF rs[i].tag = "Ok"
         THEN IF ~rs[i].val THEN Ok(FALSE) ELSE AggregateFrom(rs, i + 1)
         ELSE Err(rs[i].msg)

\* Aggregate that takes a phase without a single result for a failed one
AggregateNeedingResult(rs) == IF rs = <<>> THEN Ok(FALSE) ELSE AggregateFrom(rs, 1)

Aggregate(rs) == AggregateFrom(rs, 1)

\* -------------------------------------------------------------------- Init
Workers == 1..MaxThreads

\* the configuration files of the pipeline runs: absent, unparsable,
\* customised (with a key embargo does not know), and one with a bare string
\* where a flag list is expected
ConfigFiles ==
    { MissingFile, GarbageFile,
      TomlFile([k \in {COMPILER_KEY, LINKER_FLAGS_KEY, "jobs"} |->
                  IF k = COMPILER_KEY THEN StringV("g++")
                  ELSE IF k = LINKER_FLAGS_KEY THEN ArrayV(<<StringV("-lm")>>)
                  ELSE IntegerV]),
      TomlFile([k \in {FLAGS_KEY} |-> StringV("-Wall")]) }

\* Result<NonZeroUsize> of thread::available_parallelism
Parallelisms == {[tag |-> "Err", count |-> 0]} \cup {[tag |-> "Ok", count |-> n] : n \in 1..MaxThreads}

NoOutcome == [kind |-> "None", msg |-> <<>>]

InitRun ==
    /\ pc = "main"
    /\ config = NoResult
    /\ flags = <<>>
    /\ build_subdir = ""
    /\ data = <<>>
    /\ iterPos = 0
    /\ iterLock = 0
    /\ out = <<>>
    /\ outLock = 0
    /\ thread_count = 0
    /\ spawned = 0
    /\ joined = 0
    /\ wpc = [w \in Workers |-> "unborn"]
    /\ wval = [w \in Workers |-> 0]
    /\ wres = [w \in Workers |-> NoResult]
    /\ results = <<>>
    /\ compiled = NoResult
    /\ obj_files = <<>>
    /\ buildResult = NoResult
    /\ outcome = NoOutcome
    /\ handed = <<>>
    /\ invoked = <<>>
    /\ outOf = <<>>
    /\ ccRuns = 0
    /\ linkRuns = <<>>

\* the streams of a process
Streams == {"stdout", "stderr"}
NoChunks == [s \in Streams |-> 0]

\* no compile_object call is followed step by step
CompileIdle ==
    /\ cobj = [pc |-> "idle", compile_output |-> NoChunks, result |-> NoResult]
    /\ child = [state |-> "none", status |-> FALSE, written |-> NoChunks]
    /\ shown = NoChunks

\* the projects the pipeline is run in: a debug build of a project never
\* built before, and a release build of one built in both variants before
Projects ==
    { [command |-> "Build", dirs |-> {}, files |-> {}],
      [command |-> "ReleaseBuild", dirs |-> StaleDirs, files |-> StaleFiles] }

Init ==
    /\ configFile \in ConfigFiles
    /\ \E project \in Projects :
          /\ command = project.command
          /\ dirs = project.dirs
          /\ files = project.files
    /\ srcCount \in 0..MaxSrcs
    /\ srcUnreadable \in BOOLEAN
    /\ parallelism \in Parallelisms
    /\ InitRun
    /\ CompileIdle

\* -------------------------------------------------------------------- main
\* main: read_configuration(".") and the dispatch on the subcommand
Main ==
    /\ pc = "main"
    /\ config' = read_configuration(configFile)
    /\ IF config'.tag = "Err"
       THEN /\ outcome' = [kind |-> "Error", msg |-> config'.msg]
            /\ pc' = "exit"
       ELSE /\ outcome' = outcome
            /\ pc' = "build"
    /\ UNCHANGED <<procVars, envVars, fsVars, poolVars, histVars,
                   flags, build_subdir, results, compiled, obj_files, buildResult>>

Release == command = "ReleaseBuild"

\* build: the flags and the sub-directory of the variant
Build ==
    /\ pc = "build"
    /\ flags' = BuildFlags(config.config, Release)
    /\ build_subdir' = BuildSubdir(Release)
    /\ pc' = "find_srcs"
    /\ UNCHANGED <<procVars, envVars, fsVars, poolVars, histVars,
                   config, results, compiled, obj_files, buildResult, outcome>>

\* compile_all_objects: find_srcs, then one parameter tuple per source;
\* a discovery error is returned through build's ? operator
Discover ==
    /\ pc = "find_srcs"
    /\ LET srcs == find_srcs(SrcTree(srcCount), srcUnreadable) IN
       IF srcs.tag = "Err"
       THEN /\ buildResult' = Err(srcs.msg)
            /\ pc' = "report"
            /\ UNCHANGED <<data, handed, invoked>>
       ELSE /\ data' = CompileParameters(srcs.files, config.config.compiler, flags, build_subdir)
            /\ handed' = [i \in 1..Len(srcs.files) |-> 0]
            /\ invoked' = [i \in 1..Len(srcs.files) |-> 0]
            /\ pc' = "parallel_run"
            /\ UNCHANGED buildResult
    /\ UNCHANGED <<procVars, envVars, fsVars, config, flags, build_subdir, results, compiled, obj_files, outcome,
                   iterPos, iterLock, out, outLock, thread_count, spawned, joined,
                   wpc, wval, wres, outOf, ccRuns, linkRuns>>

\* ------------------------------------------------------------ parallel_run
\* the pool size: available_parallelism, or 1
ThreadCount(p) == IF p.tag = "Ok" THEN p.count ELSE 1

\* the iterator, the output vector and the thread count
ParallelRun ==
    /\ pc = "parallel_run"
    /\ iterPos' = 0
    /\ out' = <<>>
    /\ thread_count' = ThreadCount(parallelism)
    /\ pc' = "spawn"
    /\ UNCHANGED <<procVars, envVars, fsVars, histVars, config, flags, build_subdir, results, compiled,
                   obj_files, buildResult, outcome, data, iterLock, outLock, spawned, joined,
                   wpc, wval, wres>>

\* one turn of the spawning loop; the worker starts at the head of its loop
Spawn ==
    /\ pc = "spawn"
    /\ IF spawned < thread_count
       THEN /\ spawned' = spawned + 1
            /\ wpc' = [wpc EXCEPT ![spawned + 1] = "loop"]
            /\ pc' = pc
       ELSE /\ pc' = "join"
            /\ UNCHANGED <<spawned, wpc>>
    /\ UNCHANGED <<procVars, envVars, fsVars, histVars, config, flags, build_subdir, results, compiled,
                   obj_files, buildResult, outcome, data, iterPos, iterLock, out, outLock, thread_count,
                   joined, wval, wres>>

\* iterator_clone.lock()
LockIterator(w) ==
    /\ wpc[w] = "loop"
    /\ iterLock = 0
    /\ iterLock' = w
    /\ wpc' = [wpc EXCEPT ![w] = "next"]
    /\ UNCHANGED <<procVars, envVars, fsVars, mainVars, histVars, data, iterPos, out, outLock,
                   thread_count, spawned, joined, wval, wres>>

\* IterAdvance with every other item stepped over
IterAdvanceSkip(pos, len) == IF pos < len THEN pos + 2 ELSE pos

\* IterAdvance that stops advancing one item early
IterAdvanceStuck(pos, len) == IF pos + 1 < len THEN pos + 1 ELSE pos

\* vec::IntoIter::next: the position after the call
IterAdvance(pos, len) == IF pos < len THEN pos + 1 ELSE pos

\* iterator_mutex.next(), the guard dropped at the end of the block; None
\* breaks out of the loop and the thread ends
NextItem(w) ==
    /\ wpc[w] = "next"
    /\ iterLock' = 0
    /\ iterPos' = IterAdvance(iterPos, Len(data))
    /\ IF iterPos < Len(data)
       THEN /\ wval' = [wval EXCEPT ![w] = iterPos + 1]
            /\ handed' = [handed EXCEPT ![iterPos + 1] = @ + 1]
            /\ wpc' = [wpc EXCEPT ![w] = "call"]
       ELSE /\ wpc' = [wpc EXCEPT ![w] = "done"]
            /\ UNCHANGED <<wval, handed>>
    /\ UNCHANGED <<procVars, envVars, fsVars, mainVars, data, out, outLock, thread_count, spawned,
                   joined, wres, invoked, outOf, ccRuns, linkRuns>>

\* CreateBuildFolder that goes on to the compiler whatever create_dir_all returns
CreateBuildFolderUnchecked(w) ==
    /\ wpc[w] = "call"
    /\ invoked' = [invoked EXCEPT ![wval[w]] = @ + 1]
    /\ \E created \in BOOLEAN :
          dirs' = IF created THEN dirs \cup Ancestors(data[wval[w]].output.dir) ELSE dirs
    /\ wpc' = [wpc EXCEPT ![w] = "compile"]
    /\ wres' = wres
    /\ UNCHANGED <<procVars, envVars, mainVars, files, data, iterPos, iterLock, out, outLock,
                   thread_count, spawned, joined, wval, handed, outOf, ccRuns, linkRuns>>

\* compile_object, to create_dir_all of the object's parent directory
CreateBuildFolder(w) ==
    /\ wpc[w] = "call"
    /\ invoked' = [invoked EXCEPT ![wval[w]] = @ + 1]
    /\ \E created \in BOOLEAN :
          IF created
          THEN /\ dirs' = dirs \cup Ancestors(data[wval[w]].output.dir)
               /\ wpc' = [wpc EXCEPT ![w] = "compile"]
               /\ wres' = wres
          ELSE /\ wres' = [wres EXCEPT ![w] = Err(<<"Can't create build folder : ">>)]
               /\ wpc' = [wpc EXCEPT ![w] = "push"]
               /\ dirs' = dirs
    /\ UNCHANGED <<procVars, envVars, mainVars, files, data, iterPos, iterLock, out, outLock,
                   thread_count, spawned, joined, wval, handed, outOf, ccRuns, linkRuns>>

\* compile_object: what the function returns once the compiler has run
\* with the given exit status and its output has been written out
CompileOutcome(status, stdoutWritten, stderrWritten) ==
    IF ~stdoutWritten THEN Err(<<"Can't write to stdout : ">>)
    ELSE IF ~stderrWritten THEN Err(<<"Can't write to stderr : ">>)
    ELSE Ok(status)

\* compile_object, from compile_command.output() to the return; a compiler
\* that exits with success has written the object file
Compile(w) ==
    /\ wpc[w] = "compile"
    /\ \E started \in BOOLEAN :
          IF started
          THEN /\ ccRuns' = ccRuns + 1
               /\ \E status, stdoutWritten, stderrWritten \in BOOLEAN :
                     /\ files' = IF status THEN files \cup {data[wval[w]].output} ELSE files
                     /\ wres' = [wres EXCEPT ![w] =
                                    CompileOutcome(status, stdoutWritten, stderrWritten)]
          ELSE /\ wres' = [wres EXCEPT ![w] = Err(<<"Can't start compiler : ">>)]
               /\ UNCHANGED <<ccRuns, files>>
    /\ wpc' = [wpc EXCEPT ![w] = "push"]
    /\ UNCHANGED <<procVars, envVars, mainVars, dirs, data, iterPos, iterLock, out, outLock,
                   thread_count, spawned, joined, wval, handed, invoked, outOf, linkRuns>>

\* LockOut on a lock that excludes nobody
LockOutShared(w) ==
    /\ wpc[w] = "push"
    /\ outLock' = w
    /\ wpc' = [wpc EXCEPT ![w] = "pushing"]
    /\ UNCHANGED <<procVars, envVars, fsVars, mainVars, histVars, data, iterPos, iterLock, out,
                   thread_count, spawned, joined, wval, wres>>

\* out_clone.lock()
LockOut(w) ==
    /\ wpc[w] = "push"
    /\ outLock = 0
    /\ outLock' = w
    /\ wpc' = [wpc EXCEPT ![w] = "pushing"]
    /\ UNCHANGED <<procVars, envVars, fsVars, mainVars, histVars, data, iterPos, iterLock, out,
                   thread_count, spawned, joined, wval, wres>>

\* Push by a worker that gives up its loop once it has pushed a failure
PushStopOnFailure(w) ==
    /\ wpc[w] = "pushing"
    /\ out' = Append(out, wres[w])
    /\ outOf' = Append(outOf, wval[w])
    /\ outLock' = 0
    /\ wval' = [wval EXCEPT ![w] = 0]
    /\ wres' = [wres EXCEPT ![w] = NoResult]
    /\ wpc' = [wpc EXCEPT ![w] = IF wres[w] = Ok(TRUE) THEN "loop" ELSE "done"]
    /\ UNCHANGED <<procVars, envVars, fsVars, mainVars, data, iterPos, iterLock, thread_count,
                   spawned, joined, handed, invoked, ccRuns, linkRuns>>

\* Push by a worker that never drops the guard of the output vector
PushKeepingGuard(w) ==
    /\ wpc[w] = "pushing"
    /\ out' = Append(out, wres[w])
    /\ outOf' = Append(outOf, wval[w])
    /\ outLock' = outLock
    /\ wval' = [wval EXCEPT ![w] = 0]
    /\ wres' = [wres EXCEPT ![w] = NoResult]
    /\ wpc' = [wpc EXCEPT ![w] = "loop"]
    /\ UNCHANGED <<procVars, envVars, fsVars, mainVars, data, iterPos, iterLock, thread_count,
                   spawned, joined, handed, invoked, ccRuns, linkRuns>>

\* Push that stores the result over what out holds
PushOverwriting(w) ==
    /\ wpc[w] = "pushing"
    /\ out' = <<wres[w]>>
    /\ outOf' = <<wval[w]>>
    /\ outLock' = 0
    /\ wval' = [wval EXCEPT ![w] = 0]
    /\ wres' = [wres EXCEPT ![w] = NoResult]
    /\ wpc' = [wpc EXCEPT ![w] = "loop"]
    /\ UNCHANGED <<procVars, envVars, fsVars, mainVars, data, iterPos, iterLock, thread_count,
                   spawned, joined, handed, invoked, ccRuns, linkRuns>>

\* push(result), the guard dropped at the end of the statement
Push(w) ==
    /\ wpc[w] = "pushing"
    /\ out' = Append(out, wres[w])
    /\ outOf' = Append(outOf, wval[w])
    /\ outLock' = 0
    /\ wval' = [wval EXCEPT ![w] = 0]
    /\ wres' = [wres EXCEPT ![w] = NoResult]
    /\ wpc' = [wpc EXCEPT ![w] = "loop"]
    /\ UNCHANGED <<procVars, envVars, fsVars, mainVars, data, iterPos, iterLock, thread_count,
                   spawned, joined, handed, invoked, ccRuns, linkRuns>>

\* Joinable of a join that returns whether or not the thread has ended
JoinableAtOnce(t) == TRUE

\* whether handle t can be joined: the thread has ended
Joinable(t) == wpc[t] = "done"

\* Join by a caller that drops the handles and returns what out holds
JoinDetached ==
    /\ pc = "join"
    /\ results' = out
    /\ pc' = "aggregate"
    /\ UNCHANGED <<procVars, envVars, fsVars, histVars, poolVars, config, flags, build_subdir,
                   compiled, obj_files, buildResult, outcome>>

\* one turn of the joining loop: t.join() returns when the thread has ended
Join ==
    /\ pc = "join"
    /\ IF joined < thread_count
       THEN /\ Joinable(joined + 1)
            /\ joined' = joined + 1
            /\ pc' = pc
       ELSE /\ pc' = "unwrap"
            /\ joined' = joined
    /\ UNCHANGED <<procVars, envVars, fsVars, histVars, config, flags, build_subdir, results, compiled,
                   obj_files, buildResult, outcome, data, iterPos, iterLock, out, outLock, thread_count,
                   spawned, wpc, wval, wres>>

\* the strong count of out: the caller's Arc and the clone of each live worker
OutRefs == 1 + Cardinality({w \in 1..spawned : wpc[w] # "done"})

\* Arc::try_unwrap(out) and the return to compile_all_objects
Unwrap ==
    /\ pc = "unwrap"
    /\ IF OutRefs = 1
       THEN /\ results' = out
            /\ pc' = "aggregate"
       ELSE /\ results' = results
            /\ pc' = "panic"
    /\ UNCHANGED <<procVars, envVars, fsVars, histVars, poolVars, config, flags, build_subdir,
                   compiled, obj_files, buildResult, outcome>>

\* --------------------------------------------- compile_all_objects, build
\* LinksAfter that looks at the Result's tag and not at the bool inside
LinksAfterAnyOk(r) == r.tag = "Ok"

\* build: `if compile_all_objects(..)? { link } else { Ok(false) }`
LinksAfter(r) == r.tag = "Ok" /\ r.val

\* compile_all_objects: the loop over the results and the return into build,
\* which appends the linker flags and goes on to link, or returns
CompileAllObjects ==
    /\ pc = "aggregate"
    /\ compiled' = Aggregate(results)
    /\ IF LinksAfter(compiled')
       THEN /\ flags' = flags \o config.config.linker_flags
            /\ pc' = "link_scan"
            /\ UNCHANGED buildResult
       ELSE /\ buildResult' = compiled'
            /\ pc' = "report"
            /\ UNCHANGED flags
    /\ UNCHANGED <<procVars, envVars, fsVars, histVars, poolVars, config, build_subdir, results,
                   obj_files, outcome>>

\* find_objects: the walk of build/<build_subdir>; WalkDir yields an Err
\* for a root that does not exist
find_objects(subdir, dirSet, order, unreadable) ==
    find_file(<<DirEntry(Path(<<BUILD_DIR>>, subdir, ""))>>
                  \o [i \in 1..Len(order) |-> FileEntry(order[i])],
              unreadable \/ SubdirOf(subdir) \notin dirSet,
              <<".o">>)

\* link_program, to the result of find_objects
LinkScan ==
    /\ pc = "link_scan"
    /\ \E unreadable \in BOOLEAN :
       \E order \in WalkOrders(FilesUnder(SubdirOf(build_subdir), files)) :
          LET objects == find_objects(build_subdir, dirs, order, unreadable) IN
          IF objects.tag = "Err"
          THEN /\ buildResult' = Err(objects.msg)
               /\ pc' = "report"
               /\ UNCHANGED obj_files
          ELSE /\ obj_files' = objects.files
               /\ pc' = "link_mkdir"
               /\ UNCHANGED buildResult
    /\ UNCHANGED <<procVars, envVars, fsVars, histVars, poolVars, config, flags, build_subdir, results,
                   compiled, outcome>>

\* link_program: create_dir_all(build/<build_subdir>)
LinkCreateDir ==
    /\ pc = "link_mkdir"
    /\ \E created \in BOOLEAN :
          IF created
          THEN /\ dirs' = dirs \cup Ancestors(SubdirOf(build_subdir))
               /\ pc' = "link_run"
               /\ UNCHANGED buildResult
          ELSE /\ buildResult' = Err(<<"Can't create ", BUILD_DIR, build_subdir, " directory : ">>)
               /\ pc' = "report"
               /\ UNCHANGED dirs
    /\ UNCHANGED <<procVars, envVars, files, histVars, poolVars, config, flags, build_subdir, results,
                   compiled, obj_files, outcome>>

\* link_program: what the function returns for the link process's exit status
\* LinkOutcome that does not look at the exit status
LinkOutcomeAnyExit(status) == Ok(TRUE)

LinkOutcome(status) == Ok(status)

\* link_program, from link_command.status() to the return; a linker that
\* exits with success has written the executable
Link ==
    /\ pc = "link_run"
    /\ \E started \in BOOLEAN :
          IF started
          THEN \E status \in BOOLEAN :
                     /\ linkRuns' = Append(linkRuns, [flags |-> flags, objects |-> obj_files,
                                                      success |-> status])
                     /\ files' = IF status
                                 THEN files \cup {Path(SubdirOf(build_subdir), "app", EXE_EXTENSION)}
                                 ELSE files
                     /\ buildResult' = LinkOutcome(status)
          ELSE /\ buildResult' = Err(<<"Can't start compiler : ">>)
               /\ UNCHANGED <<linkRuns, files>>
    /\ pc' = "report"
    /\ UNCHANGED <<procVars, envVars, dirs, poolVars, config, flags, build_subdir, results, compiled,
                   obj_files, outcome, handed, invoked, outOf, ccRuns>>

\* Reported that prints "Finished" for every Ok
ReportedAnyOk(r) ==
    IF r.tag = "Err" THEN [kind |-> "Error", msg |-> <<"Build error : ">> \o r.msg]
    ELSE [kind |-> "Success", msg |-> <<"Finished">>]

\* build_command, release_build_command: what is printed for build's result
Reported(r) ==
    IF r.tag = "Err" THEN [kind |-> "Error", msg |-> <<"Build error : ">> \o r.msg]
    ELSE IF r.val THEN [kind |-> "Success", msg |-> <<"Finished">>]
    ELSE [kind |-> "BuildFailed", msg |-> <<"Finished, with errors">>]

Report ==
    /\ pc = "report"
    /\ outcome' = Reported(buildResult)
    /\ pc' = "exit"
    /\ UNCHANGED <<procVars, envVars, fsVars, histVars, poolVars, config, flags, build_subdir, results,
                   compiled, obj_files, buildResult>>

\* --------------------------------------------------------------------- Spec
Worker(w) ==
    \/ LockIterator(w)
    \/ NextItem(w)
    \/ CreateBuildFolder(w)
    \/ Compile(w)
    \/ LockOut(w)
    \/ Push(w)

Next ==
    \/ Main
    \/ Build
    \/ Discover
    \/ ParallelRun
    \/ Spawn
    \/ \E w \in Workers : Worker(w)
    \/ Join
    \/ Unwrap
    \/ CompileAllObjects
    \/ LinkScan
    \/ LinkCreateDir
    \/ Link
    \/ Report

Spec == Init /\ [][Next]_vars

\* the steps of the thread that called parallel_run
MainThread ==
    \/ Main
    \/ Build
    \/ Discover
    \/ ParallelRun
    \/ Spawn
    \/ Join
    \/ Unwrap
    \/ CompileAllObjects
    \/ LinkScan
    \/ LinkCreateDir
    \/ Link
    \/ Report

\* the same program under a scheduler that lets every thread that can take
\* a step take one sooner or later
FairSpec ==
    /\ Init
    /\ [][Next]_vars
    /\ WF_vars(MainThread)
    /\ \A w \in Workers : WF_vars(Worker(w))

\* ------------------------------------------- one compile_object call alone
\* compile_object at compile_command.output(), the build folder created:
\* the call is followed step by step, with the compiler as a process of its
\* own that writes to the pipes Command::output() gives it
InitCompile ==
    /\ configFile = MissingFile
    /\ command \in {"Build", "ReleaseBuild"}
    /\ dirs = {}
    /\ files = {}
    /\ srcCount = 1
    /\ srcUnreadable = FALSE
    /\ parallelism = [tag |-> "Ok", count |-> 1]
    /\ InitRun
    /\ cobj = [pc |-> "output", compile_output |-> NoChunks, result |-> NoResult]
    /\ child = [state |-> "none", status |-> FALSE, written |-> NoChunks]
    /\ shown = NoChunks

\* Command::output(): the compiler is spawned with stdout and stderr piped,
\* or it cannot be started
StartCompiler ==
    /\ cobj.pc = "output"
    /\ \E started \in BOOLEAN :
          IF started
          THEN /\ child' = [child EXCEPT !.state = "running"]
               /\ cobj' = [cobj EXCEPT !.pc = "collecting"]
          ELSE /\ cobj' = [cobj EXCEPT !.pc = "returned",
                                       !.result = Err(<<"Can't start compiler : ">>)]
               /\ child' = child
    /\ UNCHANGED <<envVars, fsVars, mainVars, poolVars, histVars, shown>>

\* the compiler writes one chunk to its stdout or stderr, which is a pipe
\* that Command::output() reads into a buffer
ChildWrites ==
    /\ child.state = "running"
    /\ \E s \in Streams :
          /\ child.written[s] < MaxChunks
          /\ child' = [child EXCEPT !.written[s] = @ + 1]
    /\ UNCHANGED <<envVars, fsVars, mainVars, poolVars, histVars, cobj, shown>>

\* the compiler exits
ChildExits ==
    /\ child.state = "running"
    /\ \E status \in BOOLEAN :
          child' = [child EXCEPT !.state = "exited", !.status = status]
    /\ UNCHANGED <<envVars, fsVars, mainVars, poolVars, histVars, cobj, shown>>

\* Command::output() returns once the compiler has exited, with all it wrote
OutputReturns ==
    /\ cobj.pc = "collecting"
    /\ child.state = "exited"
    /\ cobj' = [cobj EXCEPT !.pc = "write_stdout", !.compile_output = child.written]
    /\ UNCHANGED <<envVars, fsVars, mainVars, poolVars, histVars, child, shown>>

\* io::stdout().lock().write_all(&compile_output.stdout)
WriteStdout ==
    /\ cobj.pc = "write_stdout"
    /\ \E written \in BOOLEAN :
          IF written
          THEN /\ shown' = [shown EXCEPT !["stdout"] = @ + cobj.compile_output["stdout"]]
               /\ cobj' = [cobj EXCEPT !.pc = "write_stderr"]
          ELSE /\ cobj' = [cobj EXCEPT !.pc = "returned",
                                       !.result = CompileOutcome(child.status, FALSE, FALSE)]
               /\ shown' = shown
    /\ UNCHANGED <<envVars, fsVars, mainVars, poolVars, histVars, child>>

\* io::stderr().lock().write_all(&compile_output.stderr), and the return
WriteStderr ==
    /\ cobj.pc = "write_stderr"
    /\ \E written \in BOOLEAN :
          /\ shown' = IF written
                      THEN [shown EXCEPT !["stderr"] = @ + cobj.compile_output["stderr"]]
                      ELSE shown
          /\ cobj' = [cobj EXCEPT !.pc = "returned",
                                  !.result = CompileOutcome(child.status, TRUE, written)]
    /\ UNCHANGED <<envVars, fsVars, mainVars, poolVars, histVars, child>>

NextCompile ==
    \/ StartCompiler
    \/ ChildWrites
    \/ ChildExits
    \/ OutputReturns
    \/ WriteStdout
    \/ WriteStderr

SpecCompile == InitCompile /\ [][NextCompile]_vars

\* ------------------------------------------------- the configuration alone
\* the shapes a recognised key can have in the file: absent, well shaped,
\* or wrongly shaped
Absent == [type |-> "Absent", str |-> "", arr |-> <<>>]

StringKeys == {COMPILER_KEY, DEBUGGER_KEY, LINTER_KEY, LINTER_CHECKS_KEY}
ListKeys == {FLAGS_KEY, DEBUG_FLAGS_KEY, RELEASE_FLAGS_KEY, LINKER_FLAGS_KEY}
UnknownKeys == {"jobs"}

StringKeyShapes == {Absent, StringV("tool"), IntegerV}
ListKeyShapes ==
    {Absent, ArrayV(<<StringV("-O1"), StringV("-g0")>>), StringV("-O1"),
     ArrayV(<<StringV("-O1"), IntegerV>>)}
UnknownKeyShapes == {Absent, IntegerV}

\* the table that holds the keys given a value
TableOf(t) == [k \in {x \in DOMAIN t : t[x] # Absent} |-> t[k]]

\* every combination of shapes of the eight recognised keys, with and
\* without a key embargo does not know
TomlFiles ==
    {TomlFile(TableOf([k \in StringKeys \cup ListKeys \cup UnknownKeys |->
        CASE k = COMPILER_KEY -> compiler
          [] k = DEBUGGER_KEY -> debugger
          [] k = LINTER_KEY -> linter
          [] k = FLAGS_KEY -> fl
          [] k = DEBUG_FLAGS_KEY -> debug_flags
          [] k = RELEASE_FLAGS_KEY -> release_flags
          [] k = LINKER_FLAGS_KEY -> linker_flags
          [] k = LINTER_CHECKS_KEY -> linter_checks
          [] OTHER -> unknown])) :
        compiler \in StringKeyShapes, debugger \in StringKeyShapes,
        linter \in StringKeyShapes, fl \in ListKeyShapes,
        debug_flags \in ListKeyShapes, release_flags \in ListKeyShapes,
        linker_flags \in ListKeyShapes, linter_checks \in StringKeyShapes,
        unknown \in UnknownKeyShapes}

InitConfig ==
    /\ configFile \in TomlFiles \cup {MissingFile, GarbageFile}
    /\ command = "Build"
    /\ dirs = {}
    /\ files = {}
    /\ srcCount = 0
    /\ srcUnreadable = FALSE
    /\ parallelism = [tag |-> "Ok", count |-> 1]
    /\ InitRun
    /\ CompileIdle

NextConfig == Main

SpecConfig == InitConfig /\ [][NextConfig]_vars

\* ------------------------------------------------------------- properties
LinkPcs == {"link_scan", "link_mkdir", "link_run"}

\* parallel_run has returned into compile_all_objects
ParallelRunReturned ==
    \/ pc = "aggregate"
    \/ pc \in LinkPcs
    \/ pc \in {"report", "exit"} /\ compiled.tag # "None"

\* the number of elements of out computed from item i
ResultsOf(i) == Cardinality({k \in 1..Len(outOf) : outOf[k] = i})

IsFailure(r) == r # Ok(TRUE)

\* C1: when parallel_run returns, the task function has been invoked exactly
\* once on each of the N inputs and the returned vector has exactly N
\* elements, one computed from each input, in whatever order
C1_EachTaskOnceAndNResults ==
    ParallelRunReturned =>
        /\ Len(results) = Len(data)
        /\ Len(outOf) = Len(results)
        /\ \A i \in 1..Len(data) : invoked[i] = 1 /\ ResultsOf(i) = 1

\* two workers have run two tasks and the results came back in the other order
C1_Witness ==
    /\ ParallelRunReturned
    /\ thread_count = 2
    /\ Len(data) = 2
    /\ outOf = <<2, 1>>
    /\ results = out

\* C2: no item of the queue is ever handed out twice, and no two workers
\* ever hold the same item
C2_NoItemHandedTwice ==
    /\ \A i \in 1..Len(handed) : handed[i] <= 1
    /\ \A v, w \in Workers : (v # w /\ wval[v] # 0) => wval[v] # wval[w]
    /\ \A w \in Workers : \A k \in 1..Len(outOf) : wval[w] # outOf[k]

\* two workers hold an item each at the same time
C2_Witness ==
    /\ wval[1] # 0
    /\ wval[2] # 0
    /\ wpc[1] = "compile"
    /\ wpc[2] = "compile"

\* the link step has started: the object scan or the link process
LinkStarted == pc \in LinkPcs \/ obj_files # <<>> \/ linkRuns # <<>>

\* every worker has ended and been joined, nothing is queued or in flight
PoolDrained ==
    /\ spawned = thread_count
    /\ joined = thread_count
    /\ \A w \in Workers : wpc[w] = IF w <= thread_count THEN "done" ELSE "unborn"
    /\ \A w \in Workers : wval[w] = 0
    /\ iterPos = Len(data)
    /\ Len(out) = Len(data)
    /\ \A i \in 1..Len(data) : invoked[i] = 1

\* C3: the object scan and the link process start only after every worker
\* thread has ended and every compile task has completed
C3_LinkAfterBarrier == LinkStarted => PoolDrained

\* the link process is about to start after two workers compiled two sources
C3_Witness ==
    /\ pc = "link_run"
    /\ thread_count = 2
    /\ Len(data) = 2
    /\ ccRuns = 2

\* C4: a failed task is a value in the output and stops nothing: a worker
\* ends only when the queue is empty, and when parallel_run returns with
\* failures among the results every task has run and all N results are there
C4_FailureCancelsNothing ==
    /\ \A w \in Workers : wpc[w] = "done" => iterPos = Len(data)
    /\ (ParallelRunReturned /\ \E k \in 1..Len(results) : IsFailure(results[k])) =>
          /\ Len(results) = Len(data)
          /\ \A i \in 1..Len(data) : invoked[i] = 1 /\ ResultsOf(i) = 1
          /\ \A w \in Workers : wval[w] = 0 /\ wres[w] = NoResult

\* a tool-launch error was pushed first and the other task then ran and succeeded
C4_Witness ==
    /\ ParallelRunReturned
    /\ Len(results) = 2
    /\ results[1].tag = "Err"
    /\ results[2] = Ok(TRUE)
    /\ thread_count = 1

\* compile_all_objects has gone through the results
Aggregated == compiled.tag # "None"

HasCompilerFailure(rs) == \E k \in 1..Len(rs) : rs[k] = Ok(FALSE)
HasToolLaunchError(rs) == \E k \in 1..Len(rs) : rs[k].tag = "Err"

\* the first CompilerFailure of the returned vector
FirstCompilerFailure(rs) ==
    CHOOSE k \in 1..Len(rs) : rs[k] = Ok(FALSE) /\ \A j \in 1..(k - 1) : rs[j] # Ok(FALSE)

\* C5 as stated: a CompilerFailure among the results makes the build
\* outcome BuildFailed, whatever the other results, and nothing is linked
C5_CompilerFailureIsBuildFailed ==
    (Aggregated /\ HasCompilerFailure(results)) =>
        /\ compiled = Ok(FALSE)
        /\ buildResult = Ok(FALSE)
        /\ ~LinkStarted
        /\ pc = "exit" => outcome.kind = "BuildFailed"

\* C5 as amended: a CompilerFailure among the results means nothing is
\* linked and the outcome is never Success; it is BuildFailed when no
\* ToolLaunchError precedes the first CompilerFailure in the returned
\* vector, and Error otherwise
C5_CompilerFailureNeverLinks ==
    (Aggregated /\ HasCompilerFailure(results)) =>
        /\ ~LinkStarted
        /\ buildResult = compiled
        /\ compiled.tag \in {"Ok", "Err"}
        /\ compiled # Ok(TRUE)
        /\ compiled = Ok(FALSE) <=>
              \A j \in 1..(FirstCompilerFailure(results) - 1) : results[j].tag # "Err"
        /\ pc = "exit" =>
              outcome.kind = IF compiled = Ok(FALSE) THEN "BuildFailed" ELSE "Error"

\* a ToolLaunchError came back before a CompilerFailure and the build
\* ended with Error
C5_Witness ==
    /\ pc = "exit"
    /\ Len(results) = 2
    /\ results[1].tag = "Err"
    /\ results[2] = Ok(FALSE)
    /\ outcome.kind = "Error"
    /\ linkRuns = <<>>

\* C6: a ToolLaunchError among the results does not abort the other jobs,
\* makes the pipeline outcome Error once the pool has drained, and
\* nothing is linked
C6_ToolLaunchErrorIsError ==
    (Aggregated /\ HasToolLaunchError(results)) =>
        /\ Len(results) = Len(data)
        /\ \A i \in 1..Len(data) : invoked[i] = 1
        /\ compiled.tag = "Err"
        /\ ~LinkStarted
        /\ pc = "exit" => outcome.kind = "Error"

\* the files with suffix .o below build/<build_subdir>
ObjectsPresent == {f \in FilesUnder(SubdirOf(build_subdir), files) : EndsWith(f, ".o")}

\* C7, in the case it names of a variant whose output directory does not
\* exist yet: when every compile task has succeeded, exactly one link
\* process is started, with exactly the object files present
C7_OneLinkWithoutOutputDir ==
    (pc \in {"report", "exit"} /\ compiled = Ok(TRUE) /\ SubdirOf(build_subdir) \notin dirs) =>
        /\ Len(linkRuns) = 1
        /\ {linkRuns[1].objects[k] : k \in 1..Len(linkRuns[1].objects)} = ObjectsPresent

\* the project as it was when the command started
InitialProject == CHOOSE project \in Projects : project.command = command

ConfigError == config.tag = "Err"
DiscoveryError == srcUnreadable /\ config.tag = "Ok" /\ pc \notin {"main", "build", "find_srcs"}

\* C8: after a configuration error or a discovery error no compile job has
\* been constructed, no worker spawned, no compiler or linker process
\* started, and the build tree is as it was
C8_FailFastNoPartialState ==
    (ConfigError \/ DiscoveryError) =>
        /\ pc \in {"report", "exit"}
        /\ data = <<>>
        /\ spawned = 0
        /\ \A w \in Workers : wpc[w] = "unborn"
        /\ ccRuns = 0
        /\ linkRuns = <<>>
        /\ dirs = InitialProject.dirs
        /\ files = InitialProject.files
        /\ pc = "exit" => outcome.kind = "Error"

\* discovery failed in a project with two sources and the command has ended
C8_Witness ==
    /\ pc = "exit"
    /\ DiscoveryError
    /\ srcCount = 2
    /\ outcome.kind = "Error"

\* the phase of the pipeline
Failed ==
    \/ config.tag = "Err"
    \/ compiled.tag # "None" /\ compiled # Ok(TRUE)
    \/ buildResult.tag # "None" /\ buildResult # Ok(TRUE)

Phase ==
    IF Failed THEN "Failed"
    ELSE IF pc = "main" THEN "ResolvingConfig"
    ELSE IF pc \in {"build", "find_srcs"} THEN "Discovering"
    ELSE IF pc \in {"parallel_run", "spawn", "join", "unwrap", "aggregate", "panic"}
         THEN "Compiling"
    ELSE IF pc \in LinkPcs THEN "Linking"
    ELSE "Done"

PhaseRank(ph) ==
    CASE ph = "ResolvingConfig" -> 1
      [] ph = "Discovering" -> 2
      [] ph = "Compiling" -> 3
      [] ph = "Linking" -> 4
      [] ph = "Done" -> 5

\* C9: every step keeps the phase or moves it to the next one of
\* ResolvingConfig, Discovering, Compiling, Linking, Done, or to Failed;
\* Failed is never left, and once in it no compiler or linker process is
\* started and the outcome does not become Success
C9_PhaseStep ==
    LET before == Phase
        after == Phase'
    IN  IF before = "Failed"
        THEN /\ after = "Failed"
             /\ ccRuns' = ccRuns
             /\ linkRuns' = linkRuns
             /\ pc' \in {"report", "exit"}
             /\ outcome'.kind # "Success"
        ELSE \/ after = "Failed"
             \/ PhaseRank(after) = PhaseRank(before)
             \/ PhaseRank(after) = PhaseRank(before) + 1

C9_PhasesInOrder == [][C9_PhaseStep]_vars

\* the compile phase failed after compilers had run and the command has ended
C9_Witness ==
    /\ Phase = "Failed"
    /\ pc = "exit"
    /\ compiled = Ok(FALSE)
    /\ ccRuns = 2
    /\ outcome.kind = "BuildFailed"

\* a recognised key that is present with the wrong shape
WrongShape(toml, key) ==
    /\ key \in DOMAIN toml
    /\ \/ key \in StringKeys /\ toml[key].type # "String"
       \/ /\ key \in ListKeys
          /\ \/ toml[key].type # "Array"
             \/ \E i \in 1..Len(toml[key].arr) : toml[key].arr[i].type # "String"

\* the order in which read_configuration reads the keys
KeyOrder ==
    <<COMPILER_KEY, DEBUGGER_KEY, LINTER_KEY, FLAGS_KEY, DEBUG_FLAGS_KEY, RELEASE_FLAGS_KEY,
      LINKER_FLAGS_KEY, LINTER_CHECKS_KEY>>

\* the first key, in reading order, that is wrongly shaped
FirstWrongKey(toml) ==
    KeyOrder[CHOOSE i \in 1..Len(KeyOrder) :
                /\ WrongShape(toml, KeyOrder[i])
                /\ \A j \in 1..(i - 1) : ~WrongShape(toml, KeyOrder[j])]

ConfigRead == pc # "main" /\ configFile.kind = "toml"

\* C10 as stated: for every recognised key present with the wrong shape,
\* read_configuration returns an error that names that key, and no Config,
\* whatever the other keys hold
C10_ErrorNamesEveryWrongKey ==
    ConfigRead =>
        \A key \in StringKeys \cup ListKeys :
            WrongShape(configFile.table, key) =>
                /\ config.tag = "Err"
                /\ config.config = <<>>
                /\ config.msg[1] = key

\* C10 as amended: if any recognised key is present with the wrong shape,
\* read_configuration returns an error and no Config, whatever the other
\* keys hold, and the message names the first wrongly shaped key in the
\* order the keys are read
C10_ErrorNamesFirstWrongKey ==
    ConfigRead =>
        \A key \in StringKeys \cup ListKeys :
            WrongShape(configFile.table, key) =>
                /\ config.tag = "Err"
                /\ config.config = <<>>
                /\ pc = "exit"
                /\ config.msg[1] = FirstWrongKey(configFile.table)
                /\ (\A other \in (StringKeys \cup ListKeys) \ {key} :
                        ~WrongShape(configFile.table, other)) => config.msg[1] = key

\* a flag list with a non-string element, every other key well shaped
C10_Witness ==
    /\ ConfigRead
    /\ DOMAIN configFile.table = StringKeys \cup ListKeys
    /\ configFile.table[RELEASE_FLAGS_KEY] = ArrayV(<<StringV("-O1"), IntegerV>>)
    /\ \A key \in (StringKeys \cup ListKeys) \ {RELEASE_FLAGS_KEY} :
          ~WrongShape(configFile.table, key)
    /\ config.tag = "Err"
    /\ config.msg[1] = RELEASE_FLAGS_KEY

\* the documented default of a recognised key
DefaultOf(key) ==
    CASE key = COMPILER_KEY -> "clang++"
      [] key = DEBUGGER_KEY -> "lldb"
      [] key = LINTER_KEY -> "clang-tidy"
      [] key = FLAGS_KEY -> <<"-Wall", "-Wextra", "-pedantic">>
      [] key = DEBUG_FLAGS_KEY -> <<"-g">>
      [] key = RELEASE_FLAGS_KEY -> <<"-O2">>
      [] key = LINKER_FLAGS_KEY -> <<>>
      [] key = LINTER_CHECKS_KEY -> "clang-analyzer-*"

\* the field of Config a recognised key resolves to
FieldOf(cfg, key) ==
    CASE key = COMPILER_KEY -> cfg.compiler
      [] key = DEBUGGER_KEY -> cfg.debugger
      [] key = LINTER_KEY -> cfg.linter
      [] key = FLAGS_KEY -> cfg.flags
      [] key = DEBUG_FLAGS_KEY -> cfg.debug_flags
      [] key = RELEASE_FLAGS_KEY -> cfg.release_flags
      [] key = LINKER_FLAGS_KEY -> cfg.linker_flags
      [] key = LINTER_CHECKS_KEY -> cfg.linter_checks

\* the value the file gives a key that is present and well shaped
GivenValue(toml, key) ==
    IF key \in StringKeys THEN toml[key].str
    ELSE [i \in 1..Len(toml[key].arr) |-> toml[key].arr[i].str]

WellFormed(toml) == \A key \in StringKeys \cup ListKeys : ~WrongShape(toml, key)

\* C11: in a well-formed configuration every omitted key resolves to its
\* documented default and every present key to the value the file gives,
\* list order kept; each field depends on its own key alone, and a key
\* embargo does not know changes nothing
C11_KeysResolveIndependently ==
    (ConfigRead /\ WellFormed(configFile.table)) =>
        /\ config.tag = "Ok"
        /\ \A key \in StringKeys \cup ListKeys :
              FieldOf(config.config, key) =
                  IF key \in DOMAIN configFile.table
                  THEN GivenValue(configFile.table, key)
                  ELSE DefaultOf(key)

\* two keys given, six omitted, and a key embargo does not know in the file
C11_Witness ==
    /\ ConfigRead
    /\ DOMAIN configFile.table = {DEBUGGER_KEY, RELEASE_FLAGS_KEY} \cup UnknownKeys
    /\ config.tag = "Ok"
    /\ config.config.debugger = "tool"
    /\ config.config.release_flags = <<"-O1", "-g0">>
    /\ config.config.debug_flags = <<"-g">>
    /\ config.config.compiler = "clang++"

\* the jobs of the compile phase exist from the return of find_srcs on
JobsBuilt == config.tag = "Ok" /\ ~srcUnreadable /\ pc \notin {"main", "build", "find_srcs"}

\* the workers that are inside compile_object
Compiling == {w \in Workers : wpc[w] \in {"call", "compile"}}

\* C12: the object path is derived injectively from the source path: no two
\* jobs of a build have the same object path, and no two workers are inside
\* compile_object for the same object file at the same time
C12_ObjectPathsInjective ==
    /\ \A i, j \in 1..Len(data) :
          data[i].input # data[j].input => data[i].output # data[j].output
    /\ \A w, v \in Compiling :
          w # v => data[wval[w]].output # data[wval[v]].output

\* C13: at most one worker holds the queue lock and at most one the result
\* lock; a worker holds the queue lock only while it pops one item, holds no
\* lock while it runs the task, and appends its result holding the result
\* lock alone
C13_LockDiscipline ==
    \A w \in Workers :
        /\ (wpc[w] = "next") = (iterLock = w)
        /\ (wpc[w] = "pushing") = (outLock = w)
        /\ wpc[w] \in {"call", "compile"} => iterLock # w /\ outLock # w
        /\ \A v \in Workers \ {w} :
              /\ ~(wpc[w] = "next" /\ wpc[v] = "next")
              /\ ~(wpc[w] = "pushing" /\ wpc[v] = "pushing")

\* one worker runs its task while the other one pops, and the other way
\* round with the result lock
C13_Witness ==
    /\ wpc[1] = "compile"
    /\ wpc[2] = "next"
    /\ iterLock = 2
    /\ outLock = 0

\* C14: under fair scheduling of the caller and of every worker, and with
\* every compile_object call returning, a call of parallel_run returns, and
\* it returns with nothing left in the queue and no task still running
C14_ParallelRunTerminates ==
    (pc = "parallel_run") ~>
        (/\ ParallelRunReturned
         /\ PoolDrained
         /\ iterPos = Len(data)
         /\ Len(results) = Len(data))

\* parallel_run has returned from a pool of two workers that shared two jobs
C14_Witness ==
    /\ pc = "aggregate"
    /\ thread_count = 2
    /\ joined = 2
    /\ Len(results) = 2
    /\ outOf = <<2, 1>>

\* the chunks written so far by the compiler, and by embargo to its own streams
ChunksWritten == child.written["stdout"] + child.written["stderr"]
ChunksShown == shown["stdout"] + shown["stderr"]

\* C15: the compiler's output is forwarded to embargo's own streams while
\* the compiler runs: when the compiler has exited after writing output,
\* some of that output has been written to embargo's stdout or stderr,
\* instead of all of it being held back until the exit
C15_OutputForwardedLive ==
    (child.state = "exited" /\ ChunksWritten > 0) => ChunksShown > 0

\* discovery has succeeded and found no source
NoSources == srcCount = 0 /\ JobsBuilt

\* C16: when discovery succeeds with zero sources, no job is constructed, no
\* worker enters compile_object, no compiler is started, compile_all_objects
\* returns success, and the build goes on to link_program
C16_NoSourcesIsNoOp ==
    NoSources =>
        /\ data = <<>>
        /\ invoked = <<>>
        /\ ccRuns = 0
        /\ out = <<>>
        /\ \A w \in Workers : wpc[w] \in {"unborn", "loop", "next", "done"}
        /\ pc # "panic"
        /\ Aggregated =>
              /\ results = <<>>
              /\ compiled = Ok(TRUE)
              /\ pc \in LinkPcs \cup {"report", "exit"}
              /\ pc \in {"report", "exit"} =>
                    buildResult.tag = "Err" \/ Len(linkRuns) = 1

\* a pool of two workers found the queue empty and the build is at the
\* object scan of link_program
C16_Witness ==
    /\ NoSources
    /\ thread_count = 2
    /\ joined = 2
    /\ pc = "link_scan"
    /\ compiled = Ok(TRUE)

\* what the single link invocation decides: nothing started is an error, a
\* linker that ran decides by its exit status
LinkVerdict ==
    IF linkRuns = <<>> THEN "Error"
    ELSE IF linkRuns[1].success THEN "Success" ELSE "BuildFailed"

\* C17: after a compile phase in which every job succeeded, the linker is
\* started at most once, and the build outcome is Success when it exits
\* zero, BuildFailed when it exits non-zero, and Error with a message when it
\* cannot be started or the object scan or the folder creation fails
C17_LinkDecidesOutcome ==
    compiled = Ok(TRUE) =>
        /\ Len(linkRuns) <= 1
        /\ pc \in LinkPcs => linkRuns = <<>>
        /\ pc \in {"report", "exit"} =>
              /\ Reported(buildResult).kind = LinkVerdict
              /\ buildResult.tag = "Err" => buildResult.msg # <<>>
        /\ pc = "exit" => outcome.kind = LinkVerdict /\ outcome.msg # <<>>

\* two jobs compiled, the linker ran once and exited non-zero
C17_Witness ==
    /\ pc = "exit"
    /\ compiled = Ok(TRUE)
    /\ Len(results) = 2
    /\ Len(linkRuns) = 1
    /\ ~linkRuns[1].success
    /\ outcome.kind = "BuildFailed"

\* the flags every job of the build is to carry
JobFlags ==
    config.config.flags
    \o (IF command = "ReleaseBuild" THEN config.config.release_flags
        ELSE config.config.debug_flags)
    \o <<"-Iinclude">>

\* the directory every object path of the build is to lie under
VariantDir == IF command = "ReleaseBuild" THEN <<"build", "release">> ELSE <<"build", "debug">>

\* C18: one job per discovered source, in discovery order; every job
\* carries the configured compiler and the same flags: the common flags,
\* then the
\* flags of the requested variant alone, then the include-path flag; every
\* object path lies under the directory of the requested variant
C18_OneJobPerSourceSameFlags ==
    JobsBuilt =>
        /\ Len(data) = srcCount
        /\ \A i \in 1..Len(data) :
              /\ data[i].input = SrcFile(i)
              /\ data[i].compiler = config.config.compiler
              /\ data[i].flags = JobFlags
              /\ IsPrefix(VariantDir, data[i].output.dir)
              /\ data[i].output.ext = "o"

\* a release build with two sources has built its jobs
C18_Witness ==
    /\ JobsBuilt
    /\ command = "ReleaseBuild"
    /\ pc = "parallel_run"
    /\ Len(data) = 2
    /\ data[2].flags = <<"-Wall", "-Wextra", "-pedantic", "-O2", "-Iinclude">>
    /\ data[2].compiler = "g++"

\* a result of a compile_object call that got as far as a started compiler
FromStartedCompiler(r) ==
    /\ r.tag # "None"
    /\ r # Err(<<"Can't create build folder : ">>)
    /\ r # Err(<<"Can't start compiler : ">>)

OutcomeKind(r) ==
    IF r.tag = "Err" THEN "Error" ELSE IF r.val THEN "Success" ELSE "BuildFailed"

\* the per-job results of the phase in another completion order
Reordered(rs, p) == [k \in 1..Len(rs) |-> rs[p[k]]]

\* C20: the outcome of the compile phase depends on the multiset of the
\* per-job results alone: the same results pushed in any other order give
\* the same outcome from compile_all_objects
C20_OutcomeIndependentOfOrder ==
    Aggregated =>
        \A p \in Permutations(1..Len(results)) :
            OutcomeKind(Aggregate(Reordered(results, p))) = OutcomeKind(compiled)

\* the items a worker has popped and not yet pushed the result of
InFlight == Cardinality({w \in Workers : wval[w] # 0})

\* one step of the program seen from the queue and the output vector
C21_Step ==
    LET queued == Len(data) - iterPos
        flying == InFlight
        after == Len(data') - iterPos'
        flyingAfter == InFlight'
    IN  /\ queued + flying + Len(out) = Len(data)
        /\ flying <= thread_count
        /\ after + flyingAfter + Len(out') = Len(data')
        /\ flyingAfter <= thread_count'
        /\ pc \in {"spawn", "join", "unwrap"} =>
              /\ data' = data
              /\ after <= queued
              /\ Len(out') >= Len(out)
              /\ SubSeq(out', 1, Len(out)) = out

\* C21: in every state the items left in the queue, the items popped and
\* not yet pushed, and the results in out add up to N; while parallel_run
\* runs no step makes the queue longer or takes a result out of out; the
\* items in flight are never more than the pool size
C21_Conservation == [][C21_Step]_vars

\* the queue is empty, one item is being compiled and one result is in out
C21_Witness ==
    /\ Len(data) = 2
    /\ thread_count = 1
    /\ iterPos = 2
    /\ Len(out) = 1
    /\ wpc[1] = "compile"

\* C22: with a task function that returns, no panic site of parallel_run is
\* reached: a guard is only ever held by a running worker that is at next()
\* or at push, so no lock is left poisoned; every handle joined is that of
\* a thread that ended by leaving its loop; and at Arc::try_unwrap the
\* caller holds the only reference to out, so unreachable!() is not run
C22_NoPanicSiteReached ==
    /\ pc # "panic"
    /\ iterLock # 0 => wpc[iterLock] = "next"
    /\ outLock # 0 => wpc[outLock] = "pushing"
    /\ \A t \in 1..joined : wpc[t] = "done"
    /\ pc = "unwrap" => joined = thread_count /\ OutRefs = 1

\* the last of two joins has returned and the caller is at Arc::try_unwrap
C22_Witness ==
    /\ pc = "unwrap"
    /\ thread_count = 2
    /\ spawned = 2
    /\ joined = 2
    /\ Len(out) = 2
    /\ OutRefs = 1

====
